---------------------------- MODULE Spec2Model ----------------------------
(***************************************************************************)
(* A model of gitpull (src/src/gitpull/core.py, src/src/gitpull/cli.py):   *)
(* the reference parser, the sync state store, the remote metadata         *)
(* fetcher, the archive and per-file materializers and the reconciliation  *)
(* driver cli.main.                                                        *)
(*                                                                         *)
(* Text is modelled as a sequence of tokens.  A token is a run of          *)
(* characters that the code never looks inside: "/" is the path and URL    *)
(* separator, ".git" the suffix parse_repo_arg strips, "github.com",       *)
(* "https:" and "http:" the literals of its patterns, " ", "\n" and "\r"   *)
(* the whitespace that str.strip and text-mode reading act on.  A path     *)
(* inside an archive or a tree listing is the list Python's                *)
(* name.split('/') gives: a sequence of segments, each a string.           *)
(***************************************************************************)
EXTENDS Integers, Sequences, FiniteSets, TLC

VARIABLES
    fs,     \* the filesystem: absolute path (sequence of segments) -> node
    pc,     \* the position of the operation in progress
    loc,    \* the locals of the operation in progress
    hist,   \* what the run in progress (or the last run) has done so far
    arg,    \* the input of the operation under study
    out     \* the result of the operation under study

vars == <<fs, pc, loc, hist, arg, out>>

(***************************************************************************)
(* Text helpers                                                            *)
(***************************************************************************)
RECURSIVE SeqsUpTo(_, _)
SeqsUpTo(S, n) ==
    IF n = 0 THEN {<<>>}
    ELSE LET shorter == SeqsUpTo(S, n - 1)
         IN  shorter \cup {Append(s, x) : s \in {t \in shorter : Len(t) = n - 1}, x \in S}

Last(s) == s[Len(s)]
Front(s) == SubSeq(s, 1, Len(s) - 1)

\* str.endswith
EndsWith(s, suffix) ==
    /\ Len(s) >= Len(suffix)
    /\ SubSeq(s, Len(s) - Len(suffix) + 1, Len(s)) = suffix

\* str.rstrip(chars) / str.lstrip(chars) / str.strip(chars)
RECURSIVE RStrip(_, _)
RStrip(s, chars) ==
    IF s # <<>> /\ Last(s) \in chars THEN RStrip(Front(s), chars) ELSE s

RECURSIVE LStrip(_, _)
LStrip(s, chars) ==
    IF s # <<>> /\ Head(s) \in chars THEN LStrip(Tail(s), chars) ELSE s

Whitespace == {" ", "\n", "\r", "\t"}

Strip(s) == LStrip(RStrip(s, Whitespace), Whitespace)

\* str.split('/'): the segments between the separators, never an empty list
RECURSIVE SplitSlash(_)
SplitSlash(s) ==
    IF s = <<>> THEN << <<>> >>
    ELSE IF Head(s) = "/" THEN << <<>> >> \o SplitSlash(Tail(s))
    ELSE LET rest == SplitSlash(Tail(s))
         IN  << <<Head(s)>> \o Head(rest) >> \o Tail(rest)

\* the text the tokens spell
RECURSIVE Flat(_)
Flat(s) == IF s = <<>> THEN "" ELSE Head(s) \o Flat(Tail(s))

(***************************************************************************)
(* Reference parser                                                        *)
(***************************************************************************)
ParseOk(owner, repo) == [ok |-> TRUE, exc |-> "", owner |-> owner, repo |-> repo]
ParseErr == [ok |-> FALSE, exc |-> "ValueError", owner |-> <<>>, repo |-> <<>>]

\* the regular expression ([^/]+)/([^/]+)$ applied to a whole remaining text
OwnerSlashRepo(s) ==
    LET parts == SplitSlash(s)
    IN  IF Len(parts) = 2 /\ parts[1] # <<>> /\ parts[2] # <<>>
        THEN ParseOk(parts[1], parts[2])
        ELSE ParseErr

Schemes == {"https:", "http:"}

\* ^https?://github\.com/([^/]+)/([^/]+)$
https_pattern(s) ==
    IF /\ Len(s) >= 5
       /\ s[1] \in Schemes /\ s[2] = "/" /\ s[3] = "/"
       /\ s[4] = "github.com" /\ s[5] = "/"
    THEN OwnerSlashRepo(SubSeq(s, 6, Len(s)))
    ELSE ParseErr

\* ^github\.com/([^/]+)/([^/]+)$
domain_pattern(s) ==
    IF Len(s) >= 2 /\ s[1] = "github.com" /\ s[2] = "/"
    THEN OwnerSlashRepo(SubSeq(s, 3, Len(s)))
    ELSE ParseErr

\* ^([^/]+)/([^/]+)$
simple_pattern(s) == OwnerSlashRepo(s)

StripDotGit_never(s) == s

\* if repo_arg.endswith('.git'): repo_arg = repo_arg[:-4]
StripDotGit(s) == IF EndsWith(s, <<".git">>) THEN Front(s) ELSE s

parse_repo_arg(a) ==
    LET stripped == StripDotGit(RStrip(a, {"/"}))
    IN  IF https_pattern(stripped).ok THEN https_pattern(stripped)
        ELSE IF domain_pattern(stripped).ok THEN domain_pattern(stripped)
        ELSE IF simple_pattern(stripped).ok THEN simple_pattern(stripped)
        ELSE ParseErr


(***************************************************************************)
(* Filesystem.  A path is the sequence of its segments from the root; a    *)
(* node is a directory or a file with its content.  Resolution is what the *)
(* operating system does with a path text: "" (a doubled or trailing       *)
(* separator) and "." stay in place, ".." goes to the parent.              *)
(***************************************************************************)
Dir == [kind |-> "dir", data |-> <<>>]
File(data) == [kind |-> "file", data |-> data]

Exists(f, p) == p \in DOMAIN f
IsDir(f, p) == p \in DOMAIN f /\ f[p].kind = "dir"
IsFile(f, p) == p \in DOMAIN f /\ f[p].kind = "file"

Put(f, p, node) == (p :> node) @@ f

\* one component of a path, from directory cur
StepTo(cur, c) ==
    IF c \in {"", "."} THEN cur
    ELSE IF c = ".." THEN (IF cur = <<>> THEN <<>> ELSE Front(cur))
    ELSE Append(cur, c)

\* os.path.join(base, rel): a rel that starts with the separator replaces base
IsAbsolute(rel) == Len(rel) >= 2 /\ rel[1] = ""
os_path_join(base, rel) == IF IsAbsolute(rel) THEN rel ELSE base \o rel

\* os.makedirs(name, exist_ok=True): every missing directory on the way is
\* created; a file on the way (or at the end) raises OSError, and what was
\* created before stays.
RECURSIVE MakeDirsFrom(_, _, _)
MakeDirsFrom(f, cur, segs) ==
    IF segs = <<>> THEN [ok |-> TRUE, fs |-> f, at |-> cur]
    ELSE LET next == StepTo(cur, Head(segs))
         IN  IF IsFile(f, next) THEN [ok |-> FALSE, fs |-> f, at |-> next]
             ELSE IF Exists(f, next) THEN MakeDirsFrom(f, next, Tail(segs))
             ELSE MakeDirsFrom(Put(f, next, Dir), next, Tail(segs))

os_makedirs(f, segs) == MakeDirsFrom(f, <<>>, segs)

\* the directory a path text names, when every component exists
RECURSIVE LookupFrom(_, _, _)
LookupFrom(f, cur, segs) ==
    IF ~IsDir(f, cur) THEN [ok |-> FALSE, at |-> cur]
    ELSE IF segs = <<>> THEN [ok |-> TRUE, at |-> cur]
    ELSE LookupFrom(f, StepTo(cur, Head(segs)), Tail(segs))

\* the node a path text names: [ok, at]; ok is false when a directory on
\* the way is missing or is a file, or when the text names no entry of a
\* directory (it ends in a separator, "." or "..")
ResolveFile(f, segs) ==
    IF segs = <<>> THEN [ok |-> FALSE, at |-> <<>>]
    ELSE LET parent == LookupFrom(f, <<>>, Front(segs))
         IN  IF ~parent.ok \/ Last(segs) \in {"", ".", ".."}
             THEN [ok |-> FALSE, at |-> parent.at]
             ELSE [ok |-> TRUE, at |-> Append(parent.at, Last(segs))]

\* os.path.exists
os_path_exists(f, segs) ==
    IF segs = <<>> THEN TRUE
    ELSE LET parent == LookupFrom(f, <<>>, Front(segs))
         IN  /\ parent.ok
             /\ Exists(f, StepTo(parent.at, Last(segs)))

os_path_isfile(f, segs) ==
    IF segs = <<>> THEN FALSE
    ELSE LET parent == LookupFrom(f, <<>>, Front(segs))
         IN  /\ parent.ok
             /\ IsFile(f, StepTo(parent.at, Last(segs)))

\* os.path.isdir
os_path_isdir(f, segs) ==
    IF segs = <<>> THEN TRUE
    ELSE LET parent == LookupFrom(f, <<>>, Front(segs))
         IN  /\ parent.ok
             /\ IsDir(f, StepTo(parent.at, Last(segs)))

WriteFile_append(f, segs, data) ==
    LET r == ResolveFile(f, segs)
    IN  IF ~r.ok \/ IsDir(f, r.at) THEN [ok |-> FALSE, fs |-> f, at |-> r.at]
        ELSE IF IsFile(f, r.at)
        THEN [ok |-> TRUE, fs |-> Put(f, r.at, File(f[r.at].data \o data)), at |-> r.at]
        ELSE [ok |-> TRUE, fs |-> Put(f, r.at, File(data)), at |-> r.at]

WriteFile_keep(f, segs, data) ==
    LET r == ResolveFile(f, segs)
    IN  IF ~r.ok \/ IsDir(f, r.at) THEN [ok |-> FALSE, fs |-> f, at |-> r.at]
        ELSE IF IsFile(f, r.at) THEN [ok |-> TRUE, fs |-> f, at |-> r.at]
        ELSE [ok |-> TRUE, fs |-> Put(f, r.at, File(data)), at |-> r.at]

\* open(path, 'w' or 'wb') and write: the whole content is replaced; a
\* directory at the path, or a missing parent, raises OSError
WriteFile(f, segs, data) ==
    LET r == ResolveFile(f, segs)
    IN  IF ~r.ok \/ IsDir(f, r.at) THEN [ok |-> FALSE, fs |-> f, at |-> r.at]
        ELSE [ok |-> TRUE, fs |-> Put(f, r.at, File(data)), at |-> r.at]

\* open(path, 'r') and read in text mode: "\r\n" and "\r" read as "\n"
RECURSIVE UniversalNewlines(_)
UniversalNewlines(s) ==
    IF s = <<>> THEN <<>>
    ELSE IF Head(s) = "\r"
         THEN IF Len(s) >= 2 /\ s[2] = "\n"
              THEN <<"\n">> \o UniversalNewlines(Tail(Tail(s)))
              ELSE <<"\n">> \o UniversalNewlines(Tail(s))
    ELSE <<Head(s)>> \o UniversalNewlines(Tail(s))

ReadText(f, segs) ==
    LET r == ResolveFile(f, segs)
    IN  IF ~r.ok \/ ~IsFile(f, r.at) THEN [ok |-> FALSE, data |-> <<>>]
        ELSE [ok |-> TRUE, data |-> UniversalNewlines(f[r.at].data)]

(***************************************************************************)
(* Sync state store                                                        *)
(***************************************************************************)
GITPULL_FILE == ".gitpull"
VERSION_FILE == ".gitpull.version"

None == [some |-> FALSE, val |-> <<>>]
Some(v) == [some |-> TRUE, val |-> v]

StrippedOrNone_raw(text) == IF text = <<>> THEN None ELSE Some(text)

\* f.read().strip(), then "x if x else None"
StrippedOrNone(text) == IF Strip(text) = <<>> THEN None ELSE Some(Strip(text))

\* the result of a read: exc is "" or the exception raised
ReadRecord(f, directory, name) ==
    LET path == os_path_join(directory, <<name>>)
    IN  IF ~os_path_exists(f, path) THEN [exc |-> "", value |-> None]
        ELSE IF ~ReadText(f, path).ok THEN [exc |-> "OSError", value |-> None]
        ELSE [exc |-> "", value |-> StrippedOrNone(ReadText(f, path).data)]

\* f.write(value + '\n')
RecordText(value) == value \o <<"\n">>

WriteRecord(f, directory, name, value) ==
    WriteFile(f, os_path_join(directory, <<name>>), RecordText(value))

read_version_file(f, directory) == ReadRecord(f, directory, VERSION_FILE)
write_version_file(f, sha, directory) == WriteRecord(f, directory, VERSION_FILE, sha)
read_gitpull_file(f, directory) == ReadRecord(f, directory, GITPULL_FILE)
write_gitpull_file(f, url, directory) == WriteRecord(f, directory, GITPULL_FILE, url)

(***************************************************************************)
(* Archive materializer.  An archive is [corrupt, entries]; an entry is    *)
(* [name, data], name being member.filename.split('/'): a directory entry  *)
(* ends in the separator, so its last segment is "".                       *)
(***************************************************************************)
\* ZipInfo.is_dir(): the name ends in the separator
is_dir(name) == Len(name) >= 2 /\ Last(name) = ""

\* names[0].split('/')[0], the segment before the separator of root_folder
root_folder(entries) == entries[1].name[1]

\* member.filename.startswith(root_folder)
StartsWithRoot(name, root) == Len(name) >= 2 /\ name[1] = root

\* relative_path.startswith('.git/') or relative_path == '.git'
IsGitMetadata(relative_path) == Head(relative_path) = ".git"

\* the body of the for loop, for one member, on the state st of the loop
ExtractMember(st, member, root, target_dir) ==
    IF member.name = <<root, "">> THEN st
    ELSE IF ~StartsWithRoot(member.name, root) THEN st
    ELSE LET relative_path == Tail(member.name)
             target_path == os_path_join(target_dir, relative_path)
         IN  IF relative_path = <<"">> THEN st
             ELSE IF IsGitMetadata(relative_path)
                  THEN [st EXCEPT !.skipped = @ + 1]
             ELSE IF is_dir(member.name)
                  THEN LET made == os_makedirs(st.fs, target_path)
                       IN  [st EXCEPT !.fs = made.fs,
                                      !.exc = IF made.ok THEN "" ELSE "OSError"]
             ELSE LET made == os_makedirs(st.fs, Front(target_path))
                      done == WriteFile(made.fs, target_path, member.data)
                  IN  IF ~made.ok
                      THEN [st EXCEPT !.fs = made.fs, !.exc = "OSError"]
                      ELSE IF ~done.ok
                      THEN [st EXCEPT !.fs = done.fs, !.exc = "OSError"]
                      ELSE [st EXCEPT !.fs = done.fs,
                                      !.extracted = @ + 1,
                                      !.written = @ \cup {done.at}]

\* for member in zf.infolist(): the loop stops at the first exception
RECURSIVE ExtractLoop(_, _, _, _)
ExtractLoop(st, members, root, target_dir) ==
    IF members = <<>> \/ st.exc # "" THEN st
    ELSE ExtractLoop(ExtractMember(st, Head(members), root, target_dir),
                     Tail(members), root, target_dir)

ExtractStart(f) ==
    [exc |-> "", fs |-> f, extracted |-> 0, skipped |-> 0, written |-> {}]

extract_zip_unchecked(f, zip, target_dir) ==
    IF zip.corrupt THEN [ExtractStart(f) EXCEPT !.exc = "BadZipFile"]
    ELSE IF zip.entries = <<>> THEN [ExtractStart(f) EXCEPT !.exc = "IndexError"]
    ELSE ExtractLoop(ExtractStart(f), zip.entries, root_folder(zip.entries), target_dir)

extract_zip_clean(f, zip, target_dir) ==
    LET kept == {q \in DOMAIN f :
                    ~(Len(q) > Len(target_dir) /\ SubSeq(q, 1, Len(target_dir)) = target_dir)}
        cleared == [q \in kept |-> f[q]]
    IN  IF zip.corrupt THEN [ExtractStart(f) EXCEPT !.exc = "BadZipFile"]
        ELSE IF zip.entries = <<>> THEN [ExtractStart(f) EXCEPT !.exc = "ValueError"]
        ELSE ExtractLoop(ExtractStart(cleared), zip.entries, root_folder(zip.entries),
                         target_dir)

\* extract_zip(zip_path, target_dir) on filesystem f: the filesystem after
\* it, the exception it raised ("" for none) and the two counts it prints
extract_zip(f, zip, target_dir) ==
    IF zip.corrupt THEN [ExtractStart(f) EXCEPT !.exc = "BadZipFile"]
    ELSE IF zip.entries = <<>> THEN [ExtractStart(f) EXCEPT !.exc = "ValueError"]
    ELSE ExtractLoop(ExtractStart(f), zip.entries, root_folder(zip.entries), target_dir)

(***************************************************************************)
(* Stored remote URL parser                                                *)
(***************************************************************************)
\* ([^/]+)/([^/]+?)(?:\.git)?$ on the text after the host: the lazy group
\* leaves one ".git" to the optional suffix, and $ also matches before a
\* final newline
LazyRepo(repo) ==
    LET body == IF Len(repo) >= 2 /\ Last(repo) = "\n" THEN Front(repo) ELSE repo
    IN  IF Len(body) >= 2 /\ Last(body) = ".git" THEN Front(body) ELSE body

OwnerSlashLazyRepo(s) ==
    LET parts == SplitSlash(s)
    IN  IF Len(parts) = 2 /\ parts[1] # <<>> /\ parts[2] # <<>>
        THEN ParseOk(parts[1], LazyRepo(parts[2]))
        ELSE ParseErr

\* https?://github\.com/([^/]+)/([^/]+?)(?:\.git)?$
url_https_pattern(s) ==
    IF /\ Len(s) >= 5
       /\ s[1] \in Schemes /\ s[2] = "/" /\ s[3] = "/"
       /\ s[4] = "github.com" /\ s[5] = "/"
    THEN OwnerSlashLazyRepo(SubSeq(s, 6, Len(s)))
    ELSE ParseErr

\* git@github\.com:([^/]+)/([^/]+?)(?:\.git)?$
url_ssh_pattern(s) ==
    IF Len(s) >= 1 /\ s[1] = "git@github.com:"
    THEN OwnerSlashLazyRepo(Tail(s))
    ELSE ParseErr

parse_github_url_sshonly(url) == url_ssh_pattern(url)

parse_github_url(url) ==
    IF url_https_pattern(url).ok THEN url_https_pattern(url)
    ELSE IF url_ssh_pattern(url).ok THEN url_ssh_pattern(url)
    ELSE ParseErr

CanonicalUrl_owner(owner, repo) == <<"https:", "/", "/", "github.com", "/">> \o owner

\* f"https://github.com/{owner}/{repo}"
CanonicalUrl(owner, repo) ==
    <<"https:", "/", "/", "github.com", "/">> \o owner \o <<"/">> \o repo

(***************************************************************************)
(* Remote metadata fetcher.  A response is what urlopen and read give for  *)
(* one request: "ok" with a decoded body, "http" with a status (urlopen    *)
(* raises HTTPError), "urlerror" (urlopen raises URLError: the connection  *)
(* could not be made), or "timeout" (the socket times out or is reset      *)
(* while the response is read: socket.timeout, an OSError that is no       *)
(* URLError).                                                              *)
(***************************************************************************)
Ok(body) == [kind |-> "ok", code |-> 200, body |-> body]
Http(code) == [kind |-> "http", code |-> code, body |-> <<>>]
UrlError == [kind |-> "urlerror", code |-> 0, body |-> <<>>]
ReadTimeout == [kind |-> "timeout", code |-> 0, body |-> <<>>]

Returned(value) == [exc |-> "", msg |-> "", code |-> 0, value |-> value]
Raised(exc, msg, code) == [exc |-> exc, msg |-> msg, code |-> code, value |-> <<>>]

get_default_branch(resp) ==
    IF resp.kind = "ok" THEN Returned(resp.body)
    ELSE IF resp.kind = "http"
         THEN IF resp.code = 404
              THEN Raised("ValueError", "Repository not found", 404)
              ELSE Raised("RuntimeError", "GitHub API error", resp.code)
    ELSE IF resp.kind = "urlerror" THEN Raised("RuntimeError", "Network error", 0)
    ELSE Raised("TimeoutError", "", 0)

get_latest_commit_sha(resp) ==
    IF resp.kind = "ok" THEN Returned(resp.body)
    ELSE IF resp.kind = "http"
         THEN IF resp.code = 404
              THEN Raised("ValueError", "Branch not found", 404)
              ELSE Raised("RuntimeError", "GitHub API error", resp.code)
    ELSE IF resp.kind = "urlerror" THEN Raised("RuntimeError", "Network error", 0)
    ELSE Raised("TimeoutError", "", 0)

per_page == 100

\* the remote's answer to the request for page number page: the pages it
\* was given, and an empty list after the last of them
PageResponse(pages, page) == IF page <= Len(pages) THEN pages[page] ELSE Ok(<<>>)

BranchesReturned(branches, page) ==
    [exc |-> "", msg |-> "", code |-> 0, value |-> branches, requested |-> page]
BranchesRaised(exc, msg, code, page) ==
    [exc |-> exc, msg |-> msg, code |-> code, value |-> <<>>, requested |-> page]

\* the while loop of get_branches from page number page on, branches being
\* the names collected so far; requested is the number of the last page asked
RECURSIVE BranchesLoop(_, _, _)
BranchesLoop(pages, page, branches) ==
    LET resp == PageResponse(pages, page)
    IN  IF resp.kind = "ok"
        THEN IF resp.body = <<>>
             THEN BranchesReturned(branches, page)
             ELSE IF Len(resp.body) < per_page
             THEN BranchesReturned(branches \o resp.body, page)
             ELSE BranchesLoop(pages, page + 1, branches \o resp.body)
        ELSE IF resp.kind = "http"
             THEN IF resp.code = 404
                  THEN BranchesRaised("ValueError", "Repository not found", 404, page)
                  ELSE BranchesRaised("RuntimeError", "GitHub API error", resp.code, page)
        ELSE IF resp.kind = "urlerror"
             THEN BranchesRaised("RuntimeError", "Network error", 0, page)
        ELSE BranchesRaised("TimeoutError", "", 0, page)

get_branches_firstpage(pages) ==
    IF PageResponse(pages, 1).kind = "ok"
    THEN BranchesReturned(PageResponse(pages, 1).body, 1)
    ELSE BranchesLoop(pages, 1, <<>>)

get_branches(pages) == BranchesLoop(pages, 1, <<>>)

(***************************************************************************)
(* Interactive branch selection                                            *)
(***************************************************************************)
\* the branch names of the model in the order sorted() gives them
NameOrder == <<"dev", "main", "zeta">>

Rank(name) == CHOOSE i \in 1..Len(NameOrder) : NameOrder[i] = name

RECURSIVE InsertSorted(_, _)
InsertSorted(sortedSeq, name) ==
    IF sortedSeq = <<>> THEN <<name>>
    ELSE IF Rank(name) < Rank(Head(sortedSeq)) THEN <<name>> \o sortedSeq
    ELSE <<Head(sortedSeq)>> \o InsertSorted(Tail(sortedSeq), name)

RECURSIVE Sorted(_)
Sorted(names) ==
    IF names = <<>> THEN <<>> ELSE InsertSorted(Sorted(Front(names)), Last(names))

Elems(s) == {s[i] : i \in 1..Len(s)}

sorted_branches_plain(branches, default_branch) == Sorted(branches)

\* [default_branch] + [b for b in sorted(branches) if b != default_branch]
sorted_branches(branches, default_branch) ==
    IF default_branch # "" /\ default_branch \in Elems(branches)
    THEN <<default_branch>> \o SelectSeq(Sorted(branches), LAMBDA b : b # default_branch)
    ELSE Sorted(branches)

\* int(choice): the lines of the model that are numerals, and their values
Numerals == {"0", "1", "2", "3"}
IntOf(line) == CASE line = "0" -> 0 [] line = "1" -> 1 [] line = "2" -> 2 [] line = "3" -> 3

NoBranch == ""

\* select_branch on the lines the user types (already stripped), end of
\* input after the last of them: the name returned, NoBranch for None
RECURSIVE select_branch(_, _, _)
select_branch(branches, default_branch, lines) ==
    LET menu == sorted_branches(branches, default_branch)
    IN  IF lines = <<>> THEN NoBranch
        ELSE LET choice == Head(lines)
             IN  IF choice = "" THEN menu[1]
                 ELSE IF choice \in {"q", "Q"} THEN NoBranch
                 ELSE IF choice \in Numerals
                      THEN IF 1 <= IntOf(choice) /\ IntOf(choice) <= Len(menu)
                           THEN menu[IntOf(choice)]
                           ELSE select_branch(branches, default_branch, Tail(lines))
                 ELSE IF choice \in Elems(branches) THEN choice
                 ELSE select_branch(branches, default_branch, Tail(lines))

(***************************************************************************)
(* Archive download                                                        *)
(***************************************************************************)
TmpDir == <<"tmp">>

\* tempfile.mkstemp(suffix='.zip'): a fresh name for each call
mkstemp(n) == Append(TmpDir, "gitpull" \o ToString(n) \o ".zip")

ZipMarker == <<"zip">>

\* download_zip with the remote's response: the temporary file is created
\* first; HTTPError and URLError remove it and raise RuntimeError, any other
\* exception leaves it
download_zip(f, zip_path, resp) ==
    LET created == Put(f, zip_path, File(<<>>))
    IN  IF resp.kind = "ok"
        THEN [exc |-> "", fs |-> Put(f, zip_path, File(ZipMarker)), zip |-> resp.body]
        ELSE IF resp.kind \in {"http", "urlerror"}
        THEN [exc |-> "RuntimeError", fs |-> f, zip |-> resp.body]
        ELSE [exc |-> "TimeoutError", fs |-> created, zip |-> resp.body]

\* os.path.exists(zip_path) and os.unlink(zip_path)
Unlink(f, p) == [q \in DOMAIN f \ {p} |-> f[q]]

(***************************************************************************)
(* Per-file materializer.  A tree item is [path, type, blob]: blob is the  *)
(* remote's response to the request for the item's content.                *)
(***************************************************************************)
get_repo_tree(resp) ==
    IF resp.kind = "ok" THEN Returned(resp.body)
    ELSE IF resp.kind = "http"
         THEN IF resp.code = 404
              THEN Raised("ValueError", "Repository or branch not found", 404)
              ELSE Raised("RuntimeError", "GitHub API error", resp.code)
    ELSE IF resp.kind = "urlerror" THEN Raised("RuntimeError", "Network error", 0)
    ELSE Raised("TimeoutError", "", 0)

\* base64.b64decode on the encoded contents of the model
b64decode(content) ==
    CASE content = <<"YzE=">> -> <<"c1">>
      [] content = <<"YzI=">> -> <<"c2">>
      [] OTHER -> <<>>

\* a blob body is [content, encoding]
get_blob_content(resp) ==
    IF resp.kind = "ok"
    THEN IF resp.body.encoding = "base64"
         THEN Returned(b64decode(resp.body.content))
         ELSE Returned(resp.body.content)
    ELSE IF resp.kind = "http"
         THEN Raised("RuntimeError", "Failed to fetch blob", resp.code)
    ELSE IF resp.kind = "urlerror" THEN Raised("RuntimeError", "Network error", 0)
    ELSE Raised("TimeoutError", "", 0)

\* item['type'] == 'blob' and not item['path'].startswith('.git/')
\* and item['path'] != '.git'
IsWantedFile(item) == item.type = "blob" /\ Head(item.path) # ".git"

\* the body of the for loop of download_via_api, for one item
DownloadItem(st, item, target_dir) ==
    LET target_path == os_path_join(target_dir, item.path)
        made == os_makedirs(st.fs, Front(target_path))
        content == get_blob_content(item.blob)
        done == WriteFile(made.fs, target_path, content.value)
    IN  IF ~made.ok THEN [st EXCEPT !.fs = made.fs, !.exc = "OSError"]
        ELSE IF content.exc # ""
        THEN [st EXCEPT !.fs = made.fs, !.exc = content.exc]
        ELSE IF ~done.ok THEN [st EXCEPT !.fs = done.fs, !.exc = "OSError"]
        ELSE [st EXCEPT !.fs = done.fs,
                        !.extracted = @ + 1,
                        !.written = @ \cup {done.at}]

RECURSIVE DownloadLoop_continue(_, _, _)
DownloadLoop_continue(st, files, target_dir) ==
    IF files = <<>> THEN st
    ELSE LET after == DownloadItem(st, Head(files), target_dir)
         IN  DownloadLoop_continue([after EXCEPT !.exc = ""], Tail(files), target_dir)

\* for i, item in enumerate(files, 1): the loop stops at the first exception
RECURSIVE DownloadLoop(_, _, _)
DownloadLoop(st, files, target_dir) ==
    IF files = <<>> \/ st.exc # "" THEN st
    ELSE DownloadLoop(DownloadItem(st, Head(files), target_dir), Tail(files), target_dir)

\* download_via_api with the remote's response to the tree request
download_via_api(f, treeResp, target_dir) ==
    LET tree == get_repo_tree(treeResp)
    IN  IF tree.exc # "" THEN [ExtractStart(f) EXCEPT !.exc = tree.exc]
        ELSE DownloadLoop(ExtractStart(f), SelectSeq(tree.value, IsWantedFile), target_dir)

(***************************************************************************)
(* Reconciliation driver: cli.main, one action per stretch of code between *)
(* two exchanges with the remote or the user.  The inputs of a run (the    *)
(* command line, what the user types, what the remote answers) are drawn   *)
(* from the sets below.                                                    *)
(***************************************************************************)
\* the directory the repository is mirrored into, and its parent: a clone
\* run is started in the parent and names the directory by the repository
\* name, an init or update run is started in the directory itself
ParentDir == <<"p">>
RepoDir == <<"p", "r">>

Entry(name, data) == [name |-> name, data |-> data]
Zip(entries) == [corrupt |-> FALSE, entries |-> entries]
NoZip == Zip(<<>>)

OtherUrl == <<"https:", "/", "/", "github.com", "/", "x", "/", "y">>

\* the archives the remote may serve to the driver: a plain snapshot, an
\* empty archive, a snapshot that holds a file named like the origin record
\* and then an entry that cannot be written, an unreadable archive, and a
\* snapshot that holds a directory named like the last-commit record, and a
\* snapshot that holds files named like the two records
PlainZip == Zip(<<Entry(<<"r-main", "">>, <<>>), Entry(<<"r-main", "a.txt">>, <<"c1">>)>>)
EmptyZip == Zip(<<>>)
ClashZip == Zip(<<Entry(<<"r-main", ".gitpull">>, OtherUrl \o <<"\n">>),
                  Entry(<<"r-main", "a.txt">>, <<"c1">>),
                  Entry(<<"r-main", "a.txt", "b">>, <<"c1">>)>>)
CorruptZip == [corrupt |-> TRUE, entries |-> <<>>]
RecordDirZip == Zip(<<Entry(<<"r-main", ".gitpull.version", "">>, <<>>)>>)
RecordsZip == Zip(<<Entry(<<"r-main", ".gitpull">>, OtherUrl \o <<"\n">>),
                    Entry(<<"r-main", ".gitpull.version">>, <<"s0", "\n">>)>>)

RepoArgs == {<<"o", "/", "r">>, <<"o">>}
BranchArgs == {"", "dev", "?"}
UserInputs == {[eof |-> TRUE, text |-> <<>>],
               [eof |-> FALSE, text |-> <<" ">>],
               [eof |-> FALSE, text |-> <<"o", "/", "r", " ">>],
               [eof |-> FALSE, text |-> <<"o">>]}
DefaultBranchResponses == {Ok("main"), Http(404), Http(500), UrlError, ReadTimeout}
BranchPages == {<<Ok(<<"main">>)>>, <<Ok(<<"main", "dev">>)>>, <<Http(404)>>}
UserLines == {<<>>, <<"">>, <<"q">>, <<"2">>, <<"dev">>, <<"zz", "1">>}
Shas == {<<"s1">>, <<"s2">>}
ShaResponses == {Ok(sha) : sha \in Shas} \cup {Http(404), ReadTimeout}
ZipResponses ==
    {Ok(PlainZip), Ok(EmptyZip), Ok(ClashZip), Ok(CorruptZip), Ok(RecordDirZip),
     Ok(RecordsZip),
     Http(403), ReadTimeout}
Blob(content) == Ok([content |-> content, encoding |-> "base64"])
BlobText(content) == Ok([content |-> content, encoding |-> "utf-8"])
Item(path, blob) == [path |-> path, type |-> "blob", blob |-> blob]
SubTree(path) == [path |-> path, type |-> "tree", blob |-> Http(0)]
\* the trees the remote may serve: a plain tree, a tree that holds a file
\* named like the origin record and then a blob that cannot be fetched, a
\* tree whose second blob times out, and no tree
TreeResponses ==
    {Ok(<<SubTree(<<"sub">>), Item(<<".git", "config">>, Blob(<<"YzI=">>)),
          Item(<<"a.txt">>, Blob(<<"YzE=">>))>>),
     Ok(<<Item(<<".gitpull">>, BlobText(OtherUrl)), Item(<<"a.txt">>, Http(500)),
          Item(<<"b.txt">>, Blob(<<"YzE=">>))>>),
     Ok(<<Item(<<"a.txt">>, Blob(<<"YzE=">>)), Item(<<"sub", "b.txt">>, ReadTimeout),
          Item(<<"c.txt">>, Blob(<<"YzI=">>))>>),
     Http(404)}

\* how many temporary archives left behind by earlier runs the model follows
MaxLeaked == 1

Leaked(f) == {p \in DOMAIN f : Len(p) = 2 /\ p[1] = "tmp"}

NoLoc ==
    [mode |-> "", cwd |-> <<>>, branchArg |-> "", fallback |-> FALSE,
     owner |-> <<>>, repo |-> <<>>, target |-> <<>>, dir_exists |-> FALSE,
     default_branch |-> "", branches |-> <<>>, branch |-> "",
     new_sha |-> <<>>, zip_path |-> <<>>, zip |-> NoZip, tree |-> Ok(<<>>)]

NoPrev == [outcome |-> "", target |-> <<>>, branch |-> "", sha |-> <<>>]

NoHist(f, prev) ==
    [outcome |-> "", exc |-> "", calls |-> {}, wrote |-> {}, prompted |-> FALSE,
     pre |-> f, matPre |-> f, matPost |-> f, written |-> {}, matFailed |-> FALSE,
     branchesFetched |-> FALSE, selectCalled |-> FALSE, shaBranch |-> "",
     source |-> "",
     compared |-> FALSE, prev |-> prev]

\* the except clauses of main: the three caught classes print the error and
\* exit with status 1; any other exception leaves main with a traceback
MainExit(exc) ==
    IF exc \in {"FileNotFoundError", "ValueError", "RuntimeError"} THEN "exit1"
    ELSE "crash"

\* get_remote_url: the origin URL of .git/config (a config file with no
\* origin remote or no URL is modelled as an empty file)
get_remote_url(f, cwd) ==
    LET path == cwd \o <<".git", "config">>
    IN  IF ~os_path_exists(f, path) THEN Raised("FileNotFoundError", "", 0)
        ELSE IF ~ReadText(f, path).ok \/ ReadText(f, path).data = <<>>
        THEN Raised("ValueError", "", 0)
        ELSE Returned(ReadText(f, path).data)

\* the end of a run
End(outcome, exc, h) ==
    /\ pc' = "done"
    /\ hist' = [h EXCEPT !.outcome = outcome, !.exc = exc]

Fail(exc, h) == End(MainExit(exc), exc, h)

\* gitpull --init URL
StartInit ==
    /\ pc = "idle"
    /\ IsDir(fs, RepoDir)
    /\ \E repoArg \in RepoArgs :
        LET p == parse_repo_arg(repoArg)
            w == write_gitpull_file(fs, CanonicalUrl(p.owner, p.repo), RepoDir)
            h == NoHist(fs, hist.prev)
        IN  /\ loc' = [NoLoc EXCEPT !.mode = "init", !.cwd = RepoDir]
            /\ IF ~p.ok THEN Fail(p.exc, h) /\ fs' = fs
               ELSE IF ~w.ok THEN Fail("OSError", h) /\ fs' = fs
               ELSE /\ fs' = w.fs
                    /\ End("initialized", "", [h EXCEPT !.wrote = {"origin"}])
    /\ UNCHANGED <<arg, out>>

\* gitpull REPO [-b BRANCH] [--fallback], up to the first request
StartClone ==
    /\ pc = "idle"
    /\ \E repoArg \in RepoArgs, branchArg \in BranchArgs, fallback \in BOOLEAN :
        LET p == parse_repo_arg(repoArg)
            target_dir == ParentDir \o <<Flat(p.repo)>>
            h == NoHist(fs, hist.prev)
            l == [NoLoc EXCEPT !.mode = "clone", !.cwd = ParentDir,
                               !.branchArg = branchArg,
                               !.fallback = fallback]
        IN  IF ~p.ok THEN Fail(p.exc, h) /\ loc' = l
            ELSE /\ loc' = [l EXCEPT !.owner = p.owner, !.repo = p.repo,
                                     !.target = target_dir,
                                     !.dir_exists = os_path_exists(fs, target_dir)]
                 /\ pc' = "default_branch"
                 /\ hist' = h
    /\ UNCHANGED <<fs, arg, out>>

\* gitpull [-b BRANCH] [--fallback], up to the first request: the reference
\* comes from the origin record, else from .git/config, else from the user
StartUpdate ==
    /\ pc = "idle"
    /\ IsDir(fs, RepoDir)
    /\ \E branchArg \in BranchArgs, fallback \in BOOLEAN, user \in UserInputs :
        LET h == NoHist(fs, hist.prev)
            l == [NoLoc EXCEPT !.mode = "update", !.cwd = RepoDir,
                               !.branchArg = branchArg,
                               !.fallback = fallback, !.target = RepoDir,
                               !.dir_exists = TRUE]
            stored == read_gitpull_file(fs, RepoDir)
            config == get_remote_url(fs, RepoDir)
            typed == parse_repo_arg(Strip(user.text))
            saved == write_gitpull_file(fs, CanonicalUrl(typed.owner, typed.repo), RepoDir)
            Go(url, f, hh) ==
                LET p == parse_github_url(url)
                IN  /\ fs' = f
                    /\ IF ~p.ok THEN Fail(p.exc, hh) /\ loc' = l
                       ELSE /\ loc' = [l EXCEPT !.owner = p.owner, !.repo = p.repo]
                            /\ pc' = "default_branch"
                            /\ hist' = hh
            hr == [h EXCEPT !.source = "record"]
            hc == [h EXCEPT !.source = "gitconfig"]
            hp == [h EXCEPT !.source = "prompt"]
        IN  IF stored.exc # "" THEN Fail(stored.exc, h) /\ loc' = l /\ fs' = fs
            ELSE IF stored.value.some THEN Go(stored.value.val, fs, hr)
            ELSE IF os_path_isdir(fs, RepoDir \o <<".git">>)
                 THEN IF config.exc # ""
                      THEN Fail(config.exc, hc) /\ loc' = l /\ fs' = fs
                      ELSE Go(config.value, fs, hc)
            ELSE IF user.eof \/ Strip(user.text) = <<>>
                 THEN End("exit1", "SystemExit", hp) /\ loc' = l /\ fs' = fs
            ELSE IF ~typed.ok THEN Fail(typed.exc, hp) /\ loc' = l /\ fs' = fs
            ELSE IF ~saved.ok THEN Fail("OSError", hp) /\ loc' = l /\ fs' = fs
            ELSE Go(CanonicalUrl(typed.owner, typed.repo), saved.fs,
                    [hp EXCEPT !.wrote = {"origin"}, !.prompted = TRUE])
    /\ UNCHANGED <<arg, out>>

ExplicitBranch_never(branchArg) == FALSE

\* args.branch and args.branch != '?'
ExplicitBranch(branchArg) == branchArg # "" /\ branchArg # "?"

\* get_default_branch, then the explicit branch if one was given
DefaultBranch ==
    /\ pc = "default_branch"
    /\ \E resp \in DefaultBranchResponses :
        LET r == get_default_branch(resp)
        IN  IF r.exc # "" THEN Fail(r.exc, hist) /\ loc' = loc
            ELSE IF ExplicitBranch(loc.branchArg)
            THEN /\ loc' = [loc EXCEPT !.default_branch = r.value,
                                       !.branch = loc.branchArg]
                 /\ pc' = "latest_commit"
                 /\ hist' = hist
            ELSE /\ loc' = [loc EXCEPT !.default_branch = r.value]
                 /\ pc' = "branches"
                 /\ hist' = hist
    /\ UNCHANGED <<fs, arg, out>>

\* get_branches, then the default branch if there is at most one branch
Branches ==
    /\ pc = "branches"
    /\ \E pages \in BranchPages :
        LET r == get_branches(pages)
            h == [hist EXCEPT !.branchesFetched = TRUE]
        IN  IF r.exc # "" THEN Fail(r.exc, h) /\ loc' = loc
            ELSE IF Len(r.value) > 1
            THEN /\ loc' = [loc EXCEPT !.branches = r.value]
                 /\ pc' = "select"
                 /\ hist' = h
            ELSE /\ loc' = [loc EXCEPT !.branches = r.value,
                                       !.branch = loc.default_branch]
                 /\ pc' = "latest_commit"
                 /\ hist' = h
    /\ UNCHANGED <<fs, arg, out>>

\* select_branch, "Aborted." when it returns None
Select ==
    /\ pc = "select"
    /\ \E lines \in UserLines :
        LET b == select_branch(loc.branches, loc.default_branch, lines)
            h == [hist EXCEPT !.selectCalled = TRUE]
        IN  IF b = NoBranch THEN End("aborted", "", h) /\ loc' = loc
            ELSE /\ loc' = [loc EXCEPT !.branch = b]
                 /\ pc' = "latest_commit"
                 /\ hist' = h
    /\ UNCHANGED <<fs, arg, out>>

\* get_latest_commit_sha(owner, repo, branch)
LatestCommit ==
    /\ pc = "latest_commit"
    /\ \E resp \in ShaResponses :
        LET r == get_latest_commit_sha(resp)
            h == [hist EXCEPT !.shaBranch = loc.branch]
        IN  IF r.exc # "" THEN Fail(r.exc, h) /\ loc' = loc
            ELSE /\ loc' = [loc EXCEPT !.new_sha = r.value]
                 /\ pc' = "compare"
                 /\ hist' = h
    /\ UNCHANGED <<fs, arg, out>>

\* if previous_sha: ... if previous_sha == new_sha
SameCommit_never(previous_sha, new_sha) == FALSE

SameCommit(previous_sha, new_sha) == previous_sha.some /\ previous_sha.val = new_sha

\* the comparison with the stored commit, and os.makedirs(target_dir) of
\* clone mode when there is something to pull
Compare ==
    /\ pc = "compare"
    /\ LET previous_sha == IF loc.dir_exists
                           THEN read_version_file(fs, loc.target)
                           ELSE [exc |-> "", value |-> None]
           made == IF loc.dir_exists THEN [ok |-> TRUE, fs |-> fs, at |-> loc.target]
                   ELSE os_makedirs(fs, loc.target)
           h == [hist EXCEPT !.compared = TRUE, !.matPre = made.fs]
       IN  IF previous_sha.exc # "" THEN Fail(previous_sha.exc, hist) /\ fs' = fs
           ELSE IF SameCommit(previous_sha.value, loc.new_sha)
           THEN End("uptodate", "", [hist EXCEPT !.compared = TRUE]) /\ fs' = fs
           ELSE IF ~made.ok THEN Fail("OSError", hist) /\ fs' = made.fs
           ELSE /\ fs' = made.fs
                /\ pc' = IF loc.fallback THEN "fallback" ELSE "download"
                /\ hist' = h
    /\ UNCHANGED <<loc, arg, out>>

\* download_zip; a RuntimeError is answered with sys.exit(1)
Download ==
    /\ pc = "download"
    /\ \E resp \in ZipResponses :
        LET zip_path == mkstemp(Cardinality(Leaked(fs)) + 1)
            d == download_zip(fs, zip_path, resp)
            h == [hist EXCEPT !.calls = @ \cup {"download_zip"}]
        IN  /\ resp.kind = "timeout" => Cardinality(Leaked(fs)) < MaxLeaked
            /\ fs' = d.fs
            /\ IF d.exc = "RuntimeError"
               THEN End("exit1", "SystemExit", [h EXCEPT !.matFailed = TRUE]) /\ loc' = loc
               ELSE IF d.exc # ""
               THEN Fail(d.exc, [h EXCEPT !.matFailed = TRUE]) /\ loc' = loc
               ELSE /\ loc' = [loc EXCEPT !.zip_path = zip_path, !.zip = d.zip]
                    /\ pc' = "extract"
                    /\ hist' = h
    /\ UNCHANGED <<arg, out>>

\* try: extract_zip(zip_path, target_dir)
\* finally: if os.path.exists(zip_path): os.unlink(zip_path)
Extract ==
    /\ pc = "extract"
    /\ LET x == extract_zip(fs, loc.zip, loc.target)
           h == [hist EXCEPT !.calls = @ \cup {"extract_zip"}, !.written = x.written]
       IN  /\ fs' = Unlink(x.fs, loc.zip_path)
           /\ IF x.exc # "" THEN Fail(x.exc, [h EXCEPT !.matFailed = TRUE])
              ELSE pc' = "record" /\ hist' = [h EXCEPT !.matPost = Unlink(x.fs, loc.zip_path)]
    /\ UNCHANGED <<loc, arg, out>>

Fallback_swallow ==
    /\ pc = "fallback"
    /\ \E treeResp \in TreeResponses :
        LET x == download_via_api(fs, treeResp, loc.target)
            h == [hist EXCEPT !.calls = @ \cup {"download_via_api"},
                              !.written = x.written]
        IN  /\ fs' = x.fs
            /\ loc' = [loc EXCEPT !.tree = treeResp]
            /\ pc' = "record"
            /\ hist' = [h EXCEPT !.matFailed = (x.exc # ""), !.matPost = x.fs]
    /\ UNCHANGED <<arg, out>>

\* download_via_api(owner, repo, branch, target_dir)
Fallback ==
    /\ pc = "fallback"
    /\ \E treeResp \in TreeResponses :
        LET x == download_via_api(fs, treeResp, loc.target)
            h == [hist EXCEPT !.calls = @ \cup {"download_via_api"},
                              !.written = x.written]
        IN  /\ fs' = x.fs
            /\ loc' = [loc EXCEPT !.tree = treeResp]
            /\ IF x.exc # "" THEN Fail(x.exc, [h EXCEPT !.matFailed = TRUE])
               ELSE pc' = "record" /\ hist' = [h EXCEPT !.matPost = x.fs]
    /\ UNCHANGED <<arg, out>>

\* the writes after the materialization: clone mode writes the origin record
\* and the last-commit record, update mode the last-commit record
Record ==
    /\ pc = "record"
    /\ LET o == IF loc.mode = "clone"
                THEN write_gitpull_file(fs, CanonicalUrl(loc.owner, loc.repo), loc.target)
                ELSE [ok |-> TRUE, fs |-> fs, at |-> loc.target]
           v == write_version_file(o.fs, loc.new_sha, loc.target)
           ho == IF loc.mode = "clone"
                 THEN [hist EXCEPT !.wrote = @ \cup {"origin"}]
                 ELSE hist
       IN  IF ~o.ok THEN Fail("OSError", hist) /\ fs' = fs
           ELSE IF ~v.ok THEN Fail("OSError", ho) /\ fs' = o.fs
           ELSE /\ fs' = v.fs
                /\ End("synced", "", [ho EXCEPT !.wrote = @ \cup {"version"}])
    /\ UNCHANGED <<loc, arg, out>>

\* the process has ended; the next run starts from what it left on disk
Finish ==
    /\ pc = "done"
    /\ pc' = "idle"
    /\ loc' = NoLoc
    /\ hist' = NoHist(fs, IF hist.outcome \in {"synced", "uptodate"}
                           THEN [outcome |-> hist.outcome, target |-> loc.target,
                                 branch |-> hist.shaBranch, sha |-> loc.new_sha]
                           ELSE NoPrev)
    /\ UNCHANGED <<fs, arg, out>>

\* the disk before the first run: the directory does not exist yet, or it
\* exists with or without a .git directory, an origin record (naming the
\* repository, or blank) and a last-commit record
SshUrl == <<"git@github.com:", "o", "/", "r", ".git">>

EmptyFs == (<<>> :> Dir) @@ (TmpDir :> Dir) @@ (ParentDir :> Dir)

BaseFs == Put(EmptyFs, RepoDir, Dir)

WithGit(f) ==
    Put(Put(f, RepoDir \o <<".git">>, Dir), RepoDir \o <<".git", "config">>, File(SshUrl))

StartFs ==
    {EmptyFs} \cup
    {(CASE origin = "url" ->
               write_gitpull_file(g, CanonicalUrl(<<"o">>, <<"r">>), RepoDir).fs
        [] origin = "blank" -> write_gitpull_file(g, <<" ">>, RepoDir).fs
        [] origin = "none" -> g)
        : origin \in {"url", "blank", "none"},
          g \in {(IF version THEN write_version_file(h, <<"s1">>, RepoDir).fs ELSE h)
                    : version \in BOOLEAN, h \in {BaseFs, WithGit(BaseFs)}}}

NoIO == [tag |-> "none"]

Init ==
    /\ fs \in StartFs
    /\ pc = "idle"
    /\ loc = NoLoc
    /\ hist = NoHist(fs, NoPrev)
    /\ arg = NoIO
    /\ out = NoIO

Next ==
    \/ StartInit
    \/ StartClone
    \/ StartUpdate
    \/ DefaultBranch
    \/ Branches
    \/ Select
    \/ LatestCommit
    \/ Compare
    \/ Download
    \/ Extract
    \/ Fallback
    \/ Record
    \/ Finish

Spec == Init /\ [][Next]_vars

(***************************************************************************)
(* Properties of the driver, checked under Spec                            *)
(***************************************************************************)
Done == pc = "done"

\* what is on disk at a record's path: <<>> when nothing is
RecordNode(f, directory, name) ==
    IF Exists(f, Append(directory, name)) THEN <<f[Append(directory, name)]>> ELSE <<>>

OriginChanged ==
    RecordNode(fs, loc.target, GITPULL_FILE) # RecordNode(hist.pre, loc.target, GITPULL_FILE)
VersionChanged ==
    RecordNode(fs, loc.target, VERSION_FILE) # RecordNode(hist.pre, loc.target, VERSION_FILE)

\* the last-commit record the run found on disk is the commit it resolved
StoredIsResolved ==
    /\ Done
    /\ loc.new_sha # <<>>
    /\ hist.compared
    /\ IsFile(hist.pre, Append(loc.target, VERSION_FILE))
    /\ hist.pre[Append(loc.target, VERSION_FILE)].data = loc.new_sha \o <<"\n">>

\* the one write before the comparison: update mode saving the reference
\* the user typed
PromptSaved == loc.mode = "update" /\ hist.prompted

C2_SecondRunWritesNothing ==
    (/\ Done
     /\ hist.prev.outcome \in {"synced", "uptodate"}
     /\ hist.compared
     /\ hist.prev.target = loc.target
     /\ hist.prev.branch = hist.shaBranch
     /\ hist.prev.sha = loc.new_sha)
    => (hist.outcome = "uptodate" /\ hist.calls = {} /\ hist.written = {})

C2_Witness ==
    /\ Done
    /\ hist.prev.outcome = "synced"
    /\ hist.compared
    /\ hist.prev.target = loc.target
    /\ hist.prev.branch = hist.shaBranch
    /\ hist.prev.sha = loc.new_sha
    /\ hist.outcome = "uptodate"

C4_SyncedWritesBothRecords ==
    (Done /\ hist.outcome = "synced") =>
        /\ hist.wrote = {"origin", "version"}
        /\ read_gitpull_file(fs, loc.target).value
              = Some(<<"https:", "/", "/", "github.com", "/">> \o loc.owner \o <<"/">> \o loc.repo)
        /\ read_version_file(fs, loc.target).value = Some(loc.new_sha)

\* C4 as amended: a run whose materialization succeeded ends Synced unless a
\* record write raises; a run that ends Synced has written the last-commit
\* record, which reads back as the resolved commit; in clone mode it has also
\* written the origin record, which reads back as the canonical URL; in
\* update mode the writes after the materialization leave the origin record
\* as the materialization left it (the run writes it only when the reference
\* was typed by the user, before the commit is resolved; otherwise it changes
\* only if the snapshot holds a file at its path).
C4_SyncedWritesVersionAndCloneOrigin ==
    /\ (Done /\ hist.calls # {} /\ ~hist.matFailed /\ hist.outcome # "synced")
          => (hist.outcome = "crash" /\ hist.exc = "OSError")
    /\ (Done /\ hist.outcome = "synced") =>
          /\ hist.calls # {} /\ ~hist.matFailed
          /\ "version" \in hist.wrote
          /\ read_version_file(fs, loc.target).value = Some(loc.new_sha)
          /\ loc.mode = "clone" =>
                /\ "origin" \in hist.wrote
                /\ read_gitpull_file(fs, loc.target).value
                      = Some(<<"https:", "/", "/", "github.com", "/">>
                                \o loc.owner \o <<"/">> \o loc.repo)
          /\ loc.mode = "update" =>
                /\ ("origin" \in hist.wrote) = hist.prompted
                /\ RecordNode(fs, loc.target, GITPULL_FILE)
                      = RecordNode(hist.matPost, loc.target, GITPULL_FILE)
                /\ RecordNode(fs, loc.target, GITPULL_FILE)
                      # RecordNode(hist.matPre, loc.target, GITPULL_FILE)
                   => Append(loc.target, GITPULL_FILE) \in hist.written

C4_Witness ==
    /\ Done /\ hist.outcome = "synced" /\ loc.mode = "update"
    /\ RecordNode(fs, loc.target, GITPULL_FILE) = <<>>

EmptyArchiveExtracted ==
    Done /\ "extract_zip" \in hist.calls /\ loc.zip = EmptyZip /\ loc.zip_path # <<>>

MaxName == 2
MaxSlashes == 2
MaxTokens == 4

NameTokens == {"o", ".git", "github.com"}
RawTokens == {"o", "/", ".git", "github.com", "https:"}
Names == SeqsUpTo(NameTokens, MaxName) \ {<<>>}
Forms == {"bare", "domain", "https", "http"}

Prefix(form) ==
    CASE form = "bare" -> <<>>
      [] form = "domain" -> <<"github.com", "/">>
      [] form = "https" -> <<"https:", "/", "/", "github.com", "/">>
      [] form = "http" -> <<"http:", "/", "/", "github.com", "/">>

Slashes(n) == [i \in 1..n |-> "/"]

FormText(form, owner, name, dotgit, slashes) ==
    Prefix(form) \o owner \o <<"/">> \o name
        \o (IF dotgit THEN <<".git">> ELSE <<>>) \o Slashes(slashes)

ParseInputs ==
    {[form |-> "raw", owner |-> <<>>, name |-> <<>>, dotgit |-> FALSE, slashes |-> 0,
      text |-> t] : t \in SeqsUpTo(RawTokens, MaxTokens)}
    \cup
    {[form |-> form, owner |-> owner, name |-> name, dotgit |-> dotgit,
      slashes |-> slashes, text |-> FormText(form, owner, name, dotgit, slashes)]
        : form \in Forms, owner \in Names, name \in Names,
          dotgit \in BOOLEAN, slashes \in 0..MaxSlashes}

InitParse ==
    /\ fs = EmptyFs
    /\ pc = "parse_idle"
    /\ loc = NoLoc
    /\ hist = NoHist(fs, NoPrev)
    /\ arg \in ParseInputs
    /\ out = ParseErr

ParseRepoArg ==
    /\ pc = "parse_idle"
    /\ out' = parse_repo_arg(arg.text)
    /\ pc' = "parse_done"
    /\ UNCHANGED <<fs, loc, hist, arg>>

NextParse == ParseRepoArg

SpecParse == InitParse /\ [][NextParse]_vars

ParseDone == pc = "parse_done"

\* the text is <prefix>owner/name for one of the four prefixes, owner and
\* name non-empty and free of the separator
HasShape(t) ==
    \E form \in Forms :
        /\ Len(t) >= Len(Prefix(form))
        /\ SubSeq(t, 1, Len(Prefix(form))) = Prefix(form)
        /\ LET parts == SplitSlash(SubSeq(t, Len(Prefix(form)) + 1, Len(t)))
           IN  Len(parts) = 2 /\ parts[1] # <<>> /\ parts[2] # <<>>

\* the text without its trailing separators and then without one ".git"
RECURSIVE WithoutSuffix(_)
WithoutSuffix(t) ==
    IF t = <<>> THEN t
    ELSE IF Last(t) = "/" THEN WithoutSuffix(Front(t))
    ELSE IF Last(t) = ".git" THEN Front(t)
    ELSE t

\* the text with at most one of the two optional suffixes
OneSuffixShape(t) ==
    \/ HasShape(t)
    \/ t # <<>> /\ Last(t) \in {"/", ".git"} /\ HasShape(Front(t))

\* C8 as stated: for every non-empty owner and name without "/", each
\* documented form of owner/name (bare, github.com/, http(s)://github.com/,
\* with an optional trailing "/" or ".git") parses to (owner, name), and every
\* text that is none of these forms is rejected with ValueError.
C8_AllFormsAgree ==
    ParseDone =>
        /\ (arg.form # "raw" /\ ~(arg.dotgit /\ arg.slashes > 0) /\ arg.slashes <= 1)
              => out = ParseOk(arg.owner, arg.name)
        /\ ~OneSuffixShape(arg.text) => (~out.ok /\ out.exc = "ValueError")

\* C8 as amended: for every non-empty owner and name without "/", the name
\* not ending in ".git", each documented form of owner/name followed by an
\* optional ".git" and then any number of "/" parses to (owner, name); a text
\* is accepted exactly when, without its trailing "/"s and then without one
\* trailing ".git", it is one of the forms, and is rejected with ValueError
\* otherwise; an accepted pair has non-empty fields without "/".
C8_FormsAgreeUnlessNameEndsDotGit ==
    ParseDone =>
        /\ (arg.form # "raw" /\ Last(arg.name) # ".git")
              => out = ParseOk(arg.owner, arg.name)
        /\ out.ok = HasShape(WithoutSuffix(arg.text))
        /\ ~out.ok => out = ParseErr
        /\ out.ok => /\ out.owner # <<>> /\ out.repo # <<>>
                     /\ "/" \notin Elems(out.owner) \cup Elems(out.repo)

C8_Witness ==
    /\ ParseDone /\ arg.form = "https" /\ arg.dotgit /\ arg.slashes = 2
    /\ out = ParseOk(<<"o">>, <<"github.com">>)

(***************************************************************************)
(* The origin record on its own: SpecStore writes the record up to         *)
(* MaxWrites times in one directory and then reads it.                     *)
(***************************************************************************)
MaxUrl == 3
MaxWrites == 2

UrlTokens == {"u", " ", "\n", "\r"}
Urls == SeqsUpTo(UrlTokens, MaxUrl)
MissingDir == <<"p", "missing">>
StoreDirs == {RepoDir, ParentDir, MissingDir}

InitStore ==
    /\ fs \in {BaseFs, write_gitpull_file(BaseFs, OtherUrl, RepoDir).fs}
    /\ pc = "store_idle"
    /\ loc = NoLoc
    /\ hist = NoHist(fs, NoPrev)
    /\ arg \in {[directory |-> d, url |-> <<>>, ok |-> FALSE, writes |-> 0] : d \in StoreDirs}
    /\ out = [exc |-> "", value |-> None]

StoreWrite ==
    /\ pc \in {"store_idle", "store_written"}
    /\ arg.writes < MaxWrites
    /\ \E url \in Urls :
        LET w == write_gitpull_file(fs, url, arg.directory)
        IN  /\ fs' = w.fs
            /\ arg' = [arg EXCEPT !.url = url, !.ok = w.ok, !.writes = @ + 1]
    /\ pc' = "store_written"
    /\ UNCHANGED <<loc, hist, out>>

StoreRead ==
    /\ pc = "store_written"
    /\ out' = read_gitpull_file(fs, arg.directory)
    /\ pc' = "store_read"
    /\ UNCHANGED <<fs, loc, hist, arg>>

NextStore == StoreWrite \/ StoreRead

SpecStore == InitStore /\ [][NextStore]_vars

\* the record was written (the last write succeeded) and then read
ReadAfterWrite == pc = "store_read" /\ arg.ok

\* C9 as stated: reading the origin record after writing it returns exactly
\* the string written last, whatever the string.
C9_RoundTripExact ==
    ReadAfterWrite => (out.exc = "" /\ out.value = Some(arg.url))

\* C9 as amended: in an existing directory, the write replaces the whole
\* record by the string and a newline, whatever was written before; the read
\* after it returns exactly the string when the string is non-empty, has no
\* whitespace at either end and holds no carriage return; it returns None when
\* the string is empty or all whitespace.
C9_RoundTripOfCleanUrl ==
    ReadAfterWrite =>
        /\ out.exc = ""
        /\ fs[Append(arg.directory, GITPULL_FILE)] = File(arg.url \o <<"\n">>)
        /\ (/\ arg.url # <<>>
            /\ Head(arg.url) \notin Whitespace
            /\ Last(arg.url) \notin Whitespace
            /\ "\r" \notin Elems(arg.url)) => out.value = Some(arg.url)
        /\ (Elems(arg.url) \subseteq Whitespace) = (out.value = None)

C9_Witness ==
    /\ ReadAfterWrite /\ arg.writes = 2
    /\ arg.url = <<"u", " ", "u">> /\ out.value = Some(arg.url)

(***************************************************************************)
(* extract_zip on its own: SpecExtract draws an archive of up to           *)
(* MaxEntries entries and a target directory, and extracts.                *)
(***************************************************************************)
MaxEntries == 3

EntryNames ==
    {<<"r", "">>, <<"r">>, <<"r", "a">>, <<"r", "sub", "">>, <<"r", "sub", "b">>,
     <<"r", ".git", "">>, <<"r", ".git", "config">>, <<"r", ".", ".git", "config">>,
     <<"r", "sub", ".git", "x">>, <<"q", "a">>, <<"r", "a", "b">>, <<"r", "..", "x">>,
     <<"r", "", "abs">>}

\* the bytes of the entry at position i: they differ from entry to entry and
\* hold both line endings
DataAt(i) == <<"d" \o ToString(i), "\r", "\n", "\n">>

Archives ==
    {Zip([i \in 1..Len(names) |-> Entry(names[i], DataAt(i))])
        : names \in SeqsUpTo(EntryNames, MaxEntries)}

ExtractTargets ==
    {BaseFs, WithGit(BaseFs), Put(BaseFs, RepoDir \o <<"a">>, File(<<"old">>))}

InitExtract ==
    /\ fs \in ExtractTargets
    /\ pc = "extract_idle"
    /\ loc = NoLoc
    /\ hist = NoHist(fs, NoPrev)
    /\ arg \in Archives
    /\ out = [exc |-> "", extracted |-> 0, skipped |-> 0, written |-> {}]

ExtractZip ==
    /\ pc = "extract_idle"
    /\ LET x == extract_zip(fs, arg, RepoDir)
       IN  /\ fs' = x.fs
           /\ out' = [exc |-> x.exc, extracted |-> x.extracted,
                      skipped |-> x.skipped, written |-> x.written]
    /\ pc' = "extract_done"
    /\ UNCHANGED <<loc, hist, arg>>

NextExtract == ExtractZip

SpecExtract == InitExtract /\ [][NextExtract]_vars

\* the extraction ran to its end without an exception
Extracted == pc = "extract_done" /\ out.exc = ""

RootPrefix == arg.entries[1].name[1]
UnderRoot(name) == Len(name) >= 2 /\ name[1] = RootPrefix
Metadata(residual) == residual[1] = ".git"

\* the entries the extraction is to write, and those it is to skip
ToWrite ==
    {i \in 1..Len(arg.entries) :
        /\ UnderRoot(arg.entries[i].name)
        /\ Last(arg.entries[i].name) # ""
        /\ ~Metadata(Tail(arg.entries[i].name))}
ToSkip ==
    {i \in 1..Len(arg.entries) :
        /\ UnderRoot(arg.entries[i].name)
        /\ Tail(arg.entries[i].name) # <<"">>
        /\ Metadata(Tail(arg.entries[i].name))}

Created == DOMAIN fs \ DOMAIN hist.pre

\* C6: an extraction writes one file per non-directory entry under the root
\* prefix whose residual path is not version-control metadata, at
\* target/<residual path>; it ignores the entries outside the root prefix;
\* the skipped count is the number of entries whose residual path is
\* metadata; and nothing named .git is created.
C6_ExtractCountsAndNoGit ==
    Extracted =>
        /\ out.extracted = Cardinality(ToWrite)
        /\ out.skipped = Cardinality(ToSkip)
        /\ \A i \in ToWrite :
              LET r == ResolveFile(fs, RepoDir \o Tail(arg.entries[i].name))
              IN  r.ok /\ IsFile(fs, r.at) /\ r.at \in out.written
        /\ Cardinality(out.written) <= Cardinality(ToWrite)
        /\ \A p \in Created : Last(p) # ".git"

(***************************************************************************)
(* The three metadata calls on their own: SpecFetch draws a call and the   *)
(* remote's answers to its requests, and makes the call.                   *)
(***************************************************************************)
MaxPages == 3

FullPage == [i \in 1..per_page |-> "b" \o ToString(i)]
OtherFullPage == [i \in 1..per_page |-> "c" \o ToString(i)]
FetchResponses ==
    {Ok(<<"main">>), Ok(<<"dev", "main">>), Ok(FullPage), Ok(OtherFullPage), Ok(<<>>),
     Http(404), Http(500), Http(403), UrlError, ReadTimeout}
FetchCalls == {"get_default_branch", "get_branches", "get_latest_commit_sha"}

InitFetch ==
    /\ fs = EmptyFs
    /\ pc = "fetch_idle"
    /\ loc = NoLoc
    /\ hist = NoHist(fs, NoPrev)
    /\ arg \in {[fn |-> fn, pages |-> pages]
                   : fn \in FetchCalls,
                     pages \in SeqsUpTo(FetchResponses, MaxPages) \ {<<>>}}
    /\ out = BranchesReturned(<<>>, 0)

Fetch ==
    /\ pc = "fetch_idle"
    /\ out' = CASE arg.fn = "get_default_branch" ->
                     [requested |-> 1] @@ get_default_branch(arg.pages[1])
                [] arg.fn = "get_latest_commit_sha" ->
                     [requested |-> 1] @@ get_latest_commit_sha(arg.pages[1])
                [] arg.fn = "get_branches" -> get_branches(arg.pages)
    /\ pc' = "fetch_done"
    /\ UNCHANGED <<fs, loc, hist, arg>>

NextFetch == Fetch

SpecFetch == InitFetch /\ [][NextFetch]_vars

\* the remote's answer to the last request of the call
LastAnswer == PageResponse(arg.pages, out.requested)

\* C10: whichever of the three calls is made, the answer that ends it is
\* classified the same way: HTTP 404 raises the not-found error (ValueError),
\* any other HTTP status raises the remote error carrying the status
\* (RuntimeError "GitHub API error"), a transport failure raises the network
\* error (RuntimeError "Network error"), and no failure returns a value.
C10_FailuresClassified ==
    pc = "fetch_done" =>
        /\ (LastAnswer.kind = "http" /\ LastAnswer.code = 404)
              => out.exc = "ValueError"
        /\ (LastAnswer.kind = "http" /\ LastAnswer.code # 404)
              => /\ out.exc = "RuntimeError" /\ out.msg = "GitHub API error"
                 /\ out.code = LastAnswer.code
        /\ LastAnswer.kind \in {"urlerror", "timeout"}
              => (out.exc = "RuntimeError" /\ out.msg = "Network error")
        /\ (LastAnswer.kind = "ok") = (out.exc = "")

(***************************************************************************)
(* Further properties of the driver, checked under Spec                    *)
(***************************************************************************)
\* a record of the directory is not what it was when the run started
RecordsChanged ==
    \/ RecordNode(fs, RepoDir, GITPULL_FILE) # RecordNode(hist.pre, RepoDir, GITPULL_FILE)
    \/ RecordNode(fs, RepoDir, VERSION_FILE) # RecordNode(hist.pre, RepoDir, VERSION_FILE)

\* the run has reached the writes that follow a successful materialization
AfterSuccessfulMaterialization ==
    pc = "done" /\ hist.calls # {} /\ ~hist.matFailed

\* C11: at every point of a run, the origin record and the last-commit
\* record hold what they held when the run started unless the run has
\* materialized successfully and reached the record writes that follow.
C11_RecordsChangeOnlyAfterMaterialization ==
    RecordsChanged => AfterSuccessfulMaterialization

\* C12: when a run has ended, the temporary directory holds no archive
\* that it did not hold when the run started.
C12_TempArchiveRemoved ==
    Done => Leaked(fs) \subseteq Leaked(hist.pre)

\* the run used the per-file path and the remote served a tree
FallbackRan == Done /\ "download_via_api" \in hist.calls /\ loc.tree.kind = "ok"

\* the files of the tree in list order, and the positions of those whose
\* content could not be fetched
TreeFiles ==
    SelectSeq(loc.tree.body, LAMBDA item : item.type = "blob" /\ item.path[1] # ".git")
FailedFetches == {i \in 1..Len(TreeFiles) : TreeFiles[i].blob.kind # "ok"}
FirstFailed == CHOOSE i \in FailedFetches : \A j \in FailedFetches : i <= j

\* C13: when the content of a file of the tree cannot be fetched, the
\* per-file path has written exactly the files listed before the first such
\* file, in list order, and none after it; it ends with an exception, and the
\* run ends with an error without writing the last-commit record.
C13_FallbackStopsAtFirstFailure ==
    (FallbackRan /\ FailedFetches # {}) =>
        /\ hist.matFailed
        /\ hist.exc # ""
        /\ hist.outcome \in {"exit1", "crash"}
        /\ "version" \notin hist.wrote
        /\ hist.written = {RepoDir \o TreeFiles[i].path : i \in 1..(FirstFailed - 1)}
        /\ \A i \in FirstFailed..Len(TreeFiles) :
              LET p == RepoDir \o TreeFiles[i].path
              IN  /\ p \notin hist.written
                  /\ Exists(fs, p) => (Exists(hist.pre, p) /\ fs[p] = hist.pre[p])

C13_Witness ==
    /\ FallbackRan /\ FailedFetches # {} /\ FirstFailed = 2 /\ Len(TreeFiles) = 3
    /\ hist.exc = "TimeoutError" /\ Cardinality(hist.written) = 1

(***************************************************************************)
(* Pagination of get_branches, checked under SpecFetch                     *)
(***************************************************************************)
BranchesListed == pc = "fetch_done" /\ arg.fn = "get_branches"

\* the remote's answer to the request for page i is a page of full size
IsFullPage(i) ==
    PageResponse(arg.pages, i).kind = "ok" /\ Len(PageResponse(arg.pages, i).body) = per_page

\* the first page that is not of full size: a short page or a failure
LastPage == CHOOSE i \in 1..(Len(arg.pages) + 1) :
                ~IsFullPage(i) /\ \A j \in 1..(i - 1) : IsFullPage(j)

\* the names of pages 1..n, in the order received
RECURSIVE NamesUpTo(_)
NamesUpTo(n) ==
    IF n = 0 THEN <<>> ELSE NamesUpTo(n - 1) \o PageResponse(arg.pages, n).body

UpdateStarted == loc.mode = "update" /\ hist.source # ""

OriginAtStart == Append(RepoDir, GITPULL_FILE)
HadOriginRecord == Exists(hist.pre, OriginAtStart)
HadBlankOriginRecord ==
    IsFile(hist.pre, OriginAtStart)
        /\ Elems(hist.pre[OriginAtStart].data) \subseteq Whitespace
HadGitDir == IsDir(hist.pre, RepoDir \o <<".git">>)

TargetOf(i) == ResolveFile(fs, os_path_join(RepoDir, Tail(arg.entries[i].name))).at

\* C16 as stated: after an extraction, the file at the target path of every
\* entry written holds exactly the bytes of that entry, whatever the path
\* held before.
C16_ContentIsEntryContent ==
    Extracted => \A i \in ToWrite : fs[TargetOf(i)] = File(arg.entries[i].data)

\* C16 as amended: after an extraction, the file at the target path of every
\* entry written holds exactly the bytes of the last entry of the archive
\* written to that path, whatever the path held before.
C16_ContentIsLastEntryContent ==
    Extracted =>
        \A i \in ToWrite :
            (\A j \in ToWrite : TargetOf(j) = TargetOf(i) => j <= i)
                => fs[TargetOf(i)] = File(arg.entries[i].data)

C16_Witness ==
    /\ Extracted /\ 1 \in ToWrite /\ TargetOf(1) = RepoDir \o <<"a">>
    /\ IsFile(hist.pre, TargetOf(1))
    /\ hist.pre[TargetOf(1)] # fs[TargetOf(1)]
    /\ fs[TargetOf(1)] = File(arg.entries[1].data)

Inside(p) == Len(p) >= Len(RepoDir) /\ SubSeq(p, 1, Len(RepoDir)) = RepoDir

\* C17: everything an extraction creates or writes lies inside the target
\* directory.
C17_WritesStayInTarget ==
    pc = "extract_done" => \A p \in Created \cup out.written : Inside(p)

(***************************************************************************)
(* The origin record from one run to the next: SpecOrigin draws a          *)
(* reference text, parses it as a clone or init run does, stores the       *)
(* canonical URL as the origin record, and reads and parses the record as  *)
(* a later update run does.                                                *)
(***************************************************************************)
OriginTokens == {"o", ".git", " ", "\r"}
OriginNames == SeqsUpTo(OriginTokens, MaxName) \ {<<>>}
OriginOwners == {<<"o">>, <<" ", "o">>, <<"o", "\r">>}

OriginInputs ==
    {[form |-> form, owner |-> owner, name |-> name, dotgit |-> dotgit,
      slashes |-> slashes, text |-> FormText(form, owner, name, dotgit, slashes)]
        : form \in Forms, owner \in OriginOwners, name \in OriginNames,
          dotgit \in BOOLEAN, slashes \in 0..MaxSlashes}

InitOrigin ==
    /\ fs = BaseFs
    /\ pc = "origin_idle"
    /\ loc = ParseErr
    /\ hist = NoHist(fs, NoPrev)
    /\ arg \in OriginInputs
    /\ out = ParseErr

\* owner, repo = parse_repo_arg(args.repo)
ParseReference ==
    /\ pc = "origin_idle"
    /\ out' = parse_repo_arg(arg.text)
    /\ pc' = IF out'.ok THEN "origin_parsed" ELSE "origin_rejected"
    /\ UNCHANGED <<fs, loc, hist, arg>>

\* write_gitpull_file(f"https://github.com/{owner}/{repo}", target_dir)
StoreOrigin ==
    /\ pc = "origin_parsed"
    /\ fs' = write_gitpull_file(fs, CanonicalUrl(out.owner, out.repo), RepoDir).fs
    /\ pc' = "origin_stored"
    /\ UNCHANGED <<loc, hist, arg, out>>

\* the next run: gitpull_url = read_gitpull_file(), then
\* owner, repo = parse_github_url(remote_url)
ReadOrigin ==
    /\ pc = "origin_stored"
    /\ LET stored == read_gitpull_file(fs, RepoDir)
       IN  loc' = IF stored.value.some THEN parse_github_url(stored.value.val)
                  ELSE ParseErr
    /\ pc' = "origin_read"
    /\ UNCHANGED <<fs, hist, arg, out>>

NextOrigin == ParseReference \/ StoreOrigin \/ ReadOrigin

SpecOrigin == InitOrigin /\ [][NextOrigin]_vars

\* C18 as stated: the pair the later run parses from the stored origin
\* record is the pair the reference was parsed to.
C18_OriginRoundTrip ==
    pc = "origin_read" => loc = ParseOk(out.owner, out.repo)

\* C18 as amended: the pair the later run parses from the stored origin
\* record is the pair the reference was parsed to, when the parsed name does
\* not end in ".git" or in whitespace and neither field holds a carriage
\* return.
C18_OriginRoundTripOfPlainName ==
    (/\ pc = "origin_read"
     /\ Last(out.repo) \notin Whitespace \cup {".git"}
     /\ "\r" \notin Elems(out.owner) \cup Elems(out.repo))
    => loc = ParseOk(out.owner, out.repo)

C18_Witness ==
    /\ pc = "origin_read" /\ arg.form = "domain" /\ arg.dotgit
    /\ out.repo = <<" ", "o">> /\ loc = ParseOk(out.owner, out.repo)

(***************************************************************************)
(* What a run leaves in place, checked under Spec                          *)
(***************************************************************************)
RecordPaths == {Append(RepoDir, GITPULL_FILE), Append(RepoDir, VERSION_FILE)}

\* the path exists as it did when the run started
Untouched(p) == Exists(fs, p) /\ fs[p] = hist.pre[p]

\* the materialization of this run has ended, successfully (the records are
\* about to be written) or with an exception
MaterializationEnded == pc = "record" \/ (Done /\ hist.compared /\ hist.matFailed)

MaxBranches == 2
MaxLines == 2

BranchLists == SeqsUpTo(Elems(NameOrder), MaxBranches) \ {<<>>}
DefaultBranches == Elems(NameOrder) \cup {""}

\* what the user can type on one line, before input() strips nothing and
\* .strip() strips the whitespace
TypedLines ==
    {<<>>, <<" ">>, <<"q">>, <<" ", "Q">>, <<"0">>, <<"1">>, <<"2", " ">>, <<"3">>,
     <<"dev">>, <<"main">>, <<"zz">>, <<"1", " ", "1">>}

\* choice = input("Select branch [1]: ").strip()
ChoiceOf(typed) == Flat(Strip(typed))

InitSelect ==
    /\ fs = BaseFs
    /\ pc = "select_idle"
    /\ loc = ParseErr
    /\ hist = NoHist(fs, NoPrev)
    /\ arg \in [branches : BranchLists, default_branch : DefaultBranches, typed : {<<>>}]
    /\ out = NoBranch

\* the user types one more line
TypeLine ==
    /\ pc = "select_idle"
    /\ Len(arg.typed) < MaxLines
    /\ \E typed \in TypedLines : arg' = [arg EXCEPT !.typed = Append(@, typed)]
    /\ UNCHANGED <<fs, pc, loc, hist, out>>

\* select_branch(branches, default_branch) reading those lines
CallSelect ==
    /\ pc = "select_idle"
    /\ out' = select_branch(arg.branches, arg.default_branch,
                            [i \in 1..Len(arg.typed) |-> ChoiceOf(arg.typed[i])])
    /\ pc' = "select_returned"
    /\ UNCHANGED <<fs, loc, hist, arg>>

NextSelect == TypeLine \/ CallSelect

SpecSelect == InitSelect /\ [][NextSelect]_vars

Choice(i) == ChoiceOf(arg.typed[i])

\* the entries of the menu select_branch prints
MenuSize ==
    IF arg.default_branch \in Elems(arg.branches)
    THEN 1 + Cardinality({i \in 1..Len(arg.branches) : arg.branches[i] # arg.default_branch})
    ELSE Len(arg.branches)

\* a line that ends the prompt loop: empty, a quit, a number of the menu, or
\* the name of a branch of the list
Decisive(i) ==
    \/ Choice(i) = ""
    \/ Choice(i) \in {"q", "Q"}
    \/ Choice(i) \in Numerals /\ 1 <= IntOf(Choice(i)) /\ IntOf(Choice(i)) <= MenuSize
    \/ Choice(i) \notin Numerals /\ Choice(i) \in Elems(arg.branches)

HasDecisive == \E i \in 1..Len(arg.typed) : Decisive(i)
FirstDecisive == CHOOSE i \in 1..Len(arg.typed) :
                    Decisive(i) /\ \A j \in 1..(i - 1) : ~Decisive(j)

\* C20: select_branch returns None or a member of the branch list; invalid
\* lines are passed over, so the result is decided by the first line that is
\* empty, a quit, a menu number or a branch name, and is None exactly when
\* that line is a quit or the input ends before such a line; an empty line
\* returns the default branch whenever the default branch is in the list.
C20_SelectReturnsMemberOrNone ==
    pc = "select_returned" =>
        /\ out = NoBranch \/ out \in Elems(arg.branches)
        /\ ~HasDecisive => out = NoBranch
        /\ HasDecisive =>
              LET c == Choice(FirstDecisive)
              IN  /\ (out = NoBranch) <=> (c \in {"q", "Q"})
                  /\ (c = "" /\ arg.default_branch \in Elems(arg.branches))
                        => out = arg.default_branch
                  /\ c \in Elems(arg.branches) => out = c

C20_Witness ==
    /\ pc = "select_returned"
    /\ Len(arg.typed) = 2
    /\ ~Decisive(1) /\ Choice(2) = ""
    /\ arg.default_branch \in Elems(arg.branches)
    /\ arg.default_branch # Sorted(arg.branches)[1]
    /\ out = arg.default_branch

=============================================================================
